---- MODULE Spec2Model ----
(***************************************************************************)
(* The trivia-data acquisition hook useTriviaData (src/App/src/            *)
(* useTriviaData.tsx): the published snapshot {questions, loading, error}, *)
(* the session cache, and the runs of fetchData started by the effect.     *)
(*                                                                         *)
(* One action is one task of the host's event loop: the synchronous code   *)
(* between two awaits of fetchData, together with the microtasks it        *)
(* leaves behind.  A run is suspended at "fetch" (line 106), at "json"     *)
(* (line 115) or at "wait" (line 134).                                     *)
(***************************************************************************)
EXTENDS Integers, Sequences, FiniteSets, TLC

\* Bound: how many aborted runs may still be pending (in a delay, or with a
\* response on its way) next to the current run.
MaxStale == 1

\* Bound: the batch plan is checked for every requested total up to this one.
MaxPlanTotal == 160

\* The per-request maximum of the question source (the literal 50 of lines 96-104).
MAX_PER_REQUEST == 50

\* The hook's default total (line 63) and the application's own (line 250).
DEFAULT_TOTAL == 50
APP_TOTAL == 80

\* The requested totals a consumer passes: one full batch, and two batches
\* with a short last one.
Totals == {DEFAULT_TOTAL, APP_TOTAL}

\* error === null
Null == "<null>"

\* sessionStorage.getItem returns null for a missing key; null and "" are both falsy.
Absent == <<>>

VARIABLES
    questions,    \* useState<Question[]>([])          line 64
    loading,      \* useState<boolean>(true)           line 65
    error,        \* useState<string | null>(null)     line 66
    totalAmount,  \* the hook's argument               line 63
    mounted,      \* whether the consuming component is mounted
    cache,        \* sessionStorage, by requested total (CACHE_KEY, line 69)
    runs,         \* the pending aborted runs, then the run of the current effect
    populated     \* by requested total: what the run that last wrote the
                  \* cache entry passed to setQuestions (line 140)

vars == <<questions, loading, error, totalAmount, mounted, cache, runs, populated>>

----------------------------------------------------------------------------
(* Text and serialisation                                                  *)

\* The raw texts of the question source; some hold HTML entities.
RawCategory(j) ==
    CASE j % 3 = 0 -> "Science &amp; Nature"
      [] j % 3 = 1 -> "History"
      [] OTHER     -> "Entertainment: &quot;Film&quot;"

\* decodeHtml: the text content of the parsed markup, or the input when that
\* is empty.
decodeHtml(html) ==
    LET textContent ==
            CASE html = "Science &amp; Nature"          -> "Science & Nature"
              [] html = "Entertainment: &quot;Film&quot;" -> "Entertainment: \"Film\""
              [] OTHER                                  -> html
    IN  IF textContent = "" THEN html ELSE textContent

\* The records the source returns to request i of a run for `amount`
\* questions when it answers with response_code 0: as many records as were
\* asked for, in the source's order (the code does not count them).
\* category stands for the decoded text fields, qid for the fields the spread
\* of line 122 copies unchanged.
SourceResults(i, amount) ==
    [j \in 1..amount |->
        [category |-> RawCategory(i + j), qid |-> <<i, j>>]]

\* Lines 121-127: data.results.map(q => ({...q, category: decodeHtml(..), ..})).
decodeQuestions(results) ==
    [j \in 1..Len(results) |->
        [results[j] EXCEPT !.category = decodeHtml(@)]]

\* A stored value is a text: a sequence of tokens.
Tok(s) == <<s>>
Item(q) == <<"item", q>>

\* JSON.stringify of an array of records: [ item , item , ... ]
JSONstringify(qs) ==
    IF Len(qs) = 0 THEN <<Tok("["), Tok("]")>>
    ELSE [k \in 1..(2 * Len(qs) + 1) |->
            IF k = 1 THEN Tok("[")
            ELSE IF k = 2 * Len(qs) + 1 THEN Tok("]")
            ELSE IF k % 2 = 0 THEN Item(qs[k \div 2])
            ELSE Tok(",")]

IsArrayText(text) ==
    /\ Len(text) >= 2
    /\ text[1] = Tok("[")
    /\ text[Len(text)] = Tok("]")
    /\ \/ Len(text) = 2
       \/ /\ Len(text) % 2 = 1
          /\ \A k \in 2..(Len(text) - 1) :
                IF k % 2 = 0 THEN Len(text[k]) = 2 /\ text[k][1] = "item"
                             ELSE text[k] = Tok(",")

\* JSON.parse: an array, the value null, or a SyntaxError.
JSONparse(text) ==
    IF IsArrayText(text)
    THEN [kind |-> "array",
          value |-> [k \in 1..(Len(text) \div 2 - (IF Len(text) = 2 THEN 1 ELSE 0)) |->
                        text[2 * k][2]]]
    ELSE IF text = <<Tok("null")>>
    THEN [kind |-> "null", value |-> <<>>]
    ELSE [kind |-> "SyntaxError", value |-> <<>>]

\* Values another page of the session may have left under a cache key: a
\* truncated array, the text null, an empty array.
ForeignValues == { <<Tok("[")>>, <<Tok("null")>>, <<Tok("["), Tok("]")>> }

----------------------------------------------------------------------------
(* The batch plan                                                          *)

\* A slip in line 96: Math.floor(totalAmount / 50) + 1.
numRequests_floorPlusOne(total) == total \div MAX_PER_REQUEST + 1

\* Line 96: Math.ceil(totalAmount / 50), totalAmount a positive integer.
numRequests(total) == (total + MAX_PER_REQUEST - 1) \div MAX_PER_REQUEST

\* A slip in lines 102-104: every request asks for the maximum.
amountInThisRequest_alwaysMax(i, total) == MAX_PER_REQUEST

\* Lines 102-104.
amountInThisRequest(i, total) ==
    IF i = numRequests(total) - 1 /\ total % MAX_PER_REQUEST # 0
    THEN total % MAX_PER_REQUEST
    ELSE MAX_PER_REQUEST

\* A slip in line 129: unshift instead of push.
push_unshift(acc, decoded) == decoded \o acc

\* Line 129: allFetchedQuestions.push(...decodedQuestions).
push(acc, decoded) == acc \o decoded

\* Lines 99-104: the amounts the loop asks for, request by request.
planOf(total) ==
    [k \in 1..numRequests(total) |-> amountInThisRequest(k - 1, total)]

----------------------------------------------------------------------------
(* Failures and the catch/finally of fetchData                             *)

HttpError      == [name |-> "Error", message |-> "HTTP error! status: 500"]
ApiError       == [name |-> "Error", message |-> "Trivia API Error Code: 5"]
NetworkError   == [name |-> "TypeError", message |-> "Failed to fetch"]
QuotaError     == [name |-> "QuotaExceededError", message |-> "The quota has been exceeded."]
\* What fetch and the body reader reject with once the signal is aborted.
AbortException == [name |-> "AbortError", message |-> "The user aborted a request."]
\* Line 133: new Error('AbortError'): the text is the message, the name is "Error".
AbortCheckError == [name |-> "Error", message |-> "AbortError"]

Snapshot == [questions |-> questions, loading |-> loading, error |-> error]

\* A slip in lines 153-157: the finally is left out.
catchFinally_noFinally(s, e, aborted) ==
    IF e.name = "AbortError" THEN s ELSE [s EXCEPT !.error = e.message]

\* Lines 142-157: the catch and the finally, on the snapshot s.
catchFinally(s, e, aborted) ==
    LET caught == IF e.name = "AbortError" THEN s ELSE [s EXCEPT !.error = e.message]
    IN  IF aborted THEN caught ELSE [caught EXCEPT !.loading = FALSE]

\* Lines 139-140 and 154-156: the end of a run whose every batch arrived.
publishAll(s, all, aborted) ==
    LET set == [s EXCEPT !.questions = all]
    IN  IF aborted THEN set ELSE [set EXCEPT !.loading = FALSE]

\* A state setter of an unmounted component changes nothing.
Publish(run, s) ==
    /\ questions' = IF run.detached THEN questions ELSE s.questions
    /\ loading'   = IF run.detached THEN loading ELSE s.loading
    /\ error'     = IF run.detached THEN error ELSE s.error

----------------------------------------------------------------------------
(* The derived category list                                               *)

\* The place of a category text in the order of Array.prototype.sort, which
\* compares strings by their UTF-16 code units: '"' (34) < '&' (38), and
\* ' ' (32) < 'a' (97).
CodeUnitRank(text) ==
    CASE text = "Entertainment: \"Film\""           -> 1
      [] text = "Entertainment: &quot;Film&quot;"   -> 2
      [] text = "History"                           -> 3
      [] text = "Science & Nature"                  -> 4
      [] text = "Science &amp; Nature"              -> 5
      [] OTHER                                      -> 6

\* new Set(questions.map(q => q.category)), as Array.from lists it: every
\* category once, in the order of its first occurrence (lines 170-171).
categorySet(qs) ==
    LET firsts == {k \in 1..Len(qs) :
                      \A h \in 1..(k - 1) : qs[h].category # qs[k].category}
        place(k) == Cardinality({h \in firsts : h <= k})
    IN  [n \in 1..Cardinality(firsts) |->
            qs[CHOOSE k \in firsts : place(k) = n].category]

\* A slip in line 171: the sort is left out.
sort_missing(texts) == texts

\* Line 171: .sort() of an array of distinct strings.
sort(texts) ==
    LET below(k) == Cardinality({h \in 1..Len(texts) :
                        CodeUnitRank(texts[h]) < CodeUnitRank(texts[k])})
    IN  [n \in 1..Len(texts) |->
            texts[CHOOSE k \in 1..Len(texts) : below(k) = n - 1]]

\* Lines 169-172: the memoized categories of the published questions.
categories == <<"All">> \o sort(categorySet(questions))

----------------------------------------------------------------------------
(* The runs                                                                *)

\* Lines 75-88: what the cache check finds under the key of the requested
\* total.  A stored value that JSON.parse rejects, or whose length cannot be
\* read (null), ends in the catch of line 84; an empty array falls through.
cacheCheck(stored) ==
    IF stored = Absent THEN "miss"
    ELSE LET parsedData == JSONparse(stored)
         IN  CASE parsedData.kind = "array" /\ Len(parsedData.value) > 0 -> "hit"
               [] parsedData.kind = "array"                              -> "empty"
               [] OTHER                                                  -> "corrupt"

\* A slip in lines 80-81: the hit path forgets setLoading(false).
startSnapshot_hitKeepsLoading(s, stored) ==
    IF cacheCheck(stored) = "hit"
    THEN [s EXCEPT !.questions = JSONparse(stored).value]
    ELSE [s EXCEPT !.loading = TRUE, !.error = Null]

\* Lines 80-81 on a hit, lines 91-92 otherwise.
startSnapshot(s, stored) ==
    IF cacheCheck(stored) = "hit"
    THEN [s EXCEPT !.questions = JSONparse(stored).value, !.loading = FALSE]
    ELSE [s EXCEPT !.loading = TRUE, !.error = Null]

\* A slip in line 86: the bad entry is left in place.
startCache_keepsEntry(c, t) == c

\* Line 86: sessionStorage.removeItem(CACHE_KEY) in the catch of the parse.
startCache(c, t) ==
    IF cacheCheck(c[t]) = "corrupt" THEN [c EXCEPT ![t] = Absent] ELSE c

\* A run of fetchData right after its synchronous start (lines 73-109): ended
\* on a cache hit, suspended at the first fetch otherwise.  path, out, reqs
\* and delays record what the run did: how it started, how it ended, the
\* amounts it requested, the delays it sat through.
NewRun(t, path) ==
    [total |-> t, aborted |-> FALSE, detached |-> FALSE,
     pc |-> IF path = "hit" THEN "done" ELSE "fetch",
     i |-> 0, acc |-> <<>>,
     path |-> path,
     out |-> IF path = "hit" THEN "hit" ELSE "running",
     reqs |-> IF path = "hit" THEN <<>> ELSE <<amountInThisRequest(0, t)>>,
     delays |-> 0,
     rejected |-> FALSE]

\* controller.abort() (line 164) while the run is suspended.  A pending fetch
\* rejects with an AbortError.  A pending response.json() rejects too, unless
\* the body was already read to its end and the task that resolves the
\* promise is queued behind the task that aborts (raced): the run then goes
\* on with its signal aborted, which is the case line 133 tests for.  The
\* timer of wait() (line 57) takes no signal and is not touched.
\* A slip in lines 106-109: the pending request does not hear the signal.
rejectsOnAbort_never(run, raced) == FALSE

rejectsOnAbort(run, raced) ==
    run.pc = "fetch" \/ (run.pc = "json" /\ ~raced)

\* A slip in lines 163-165: the effect returns no cleanup.
abortRun_noCleanup(run, raced) == run

abortRun(run, raced) ==
    IF rejectsOnAbort(run, raced)
    THEN [run EXCEPT !.aborted = TRUE, !.pc = "done", !.out = "cancelled",
                     !.acc = <<>>]
    ELSE [run EXCEPT !.aborted = TRUE]

\* The snapshot after the aborted run's rejection went through its catch.
afterAbort(s, run, raced) ==
    IF rejectsOnAbort(run, raced) /\ ~run.detached
    THEN catchFinally(s, AbortException, TRUE)
    ELSE s

\* The runs that have not ended.
Pending(rs) == SelectSeq(rs, LAMBDA run : run.pc # "done")

RemoveAt(rs, r) == [k \in 1..(Len(rs) - 1) |-> IF k < r THEN rs[k] ELSE rs[k + 1]]

\* Run r has ended as `ended`: an aborted run is forgotten, the current run
\* stays as it ended.
Settle(r, ended) ==
    IF runs[r].aborted THEN RemoveAt(runs, r) ELSE [runs EXCEPT ![r] = ended]

InitialSnapshot == [questions |-> <<>>, loading |-> TRUE, error |-> Null]

Init ==
    /\ questions = InitialSnapshot.questions
    /\ loading = InitialSnapshot.loading
    /\ error = InitialSnapshot.error
    /\ totalAmount = DEFAULT_TOTAL
    /\ mounted = FALSE
    /\ runs = <<>>
    /\ populated = [t \in Totals |-> <<>>]
    /\ cache \in {c \in [Totals -> {Absent} \cup ForeignValues] :
                    Cardinality({t \in Totals : c[t] # Absent}) <= 1}

\* The component mounts with requested total t: the effect runs (lines 68-160).
Mount(t) ==
    /\ ~mounted
    /\ mounted' = TRUE
    /\ totalAmount' = t
    /\ LET s == startSnapshot(InitialSnapshot, cache[t])
       IN  /\ questions' = s.questions
           /\ loading' = s.loading
           /\ error' = s.error
    /\ cache' = startCache(cache, t)
    /\ runs' = Append(runs, NewRun(t, cacheCheck(cache[t])))
    /\ UNCHANGED populated

\* The requested total changes to t: the cleanup of the old effect aborts the
\* current run (lines 163-165), then the effect runs again (line 166).
ChangeTotal(t, raced) ==
    /\ mounted
    /\ t # totalAmount
    /\ LET cur == Len(runs)
           stale == Pending([runs EXCEPT ![cur] = abortRun(@, raced)])
           s == afterAbort(startSnapshot(Snapshot, cache[t]), runs[cur], raced)
       IN  /\ Len(stale) <= MaxStale
           /\ questions' = s.questions
           /\ loading' = s.loading
           /\ error' = s.error
           /\ runs' = Append(stale, NewRun(t, cacheCheck(cache[t])))
    /\ totalAmount' = t
    /\ cache' = startCache(cache, t)
    /\ UNCHANGED <<mounted, populated>>

\* The component unmounts: the cleanup aborts the current run, and the
\* component's state is gone.
Unmount(raced) ==
    /\ mounted
    /\ mounted' = FALSE
    /\ LET cur == Len(runs)
           stale == Pending([runs EXCEPT ![cur] = abortRun(@, raced)])
       IN  /\ Len(stale) <= MaxStale
           /\ runs' = [r \in 1..Len(stale) |-> [stale[r] EXCEPT !.detached = TRUE]]
    /\ questions' = InitialSnapshot.questions
    /\ loading' = InitialSnapshot.loading
    /\ error' = InitialSnapshot.error
    /\ UNCHANGED <<totalAmount, cache, populated>>

\* Run r ends in the catch with e (lines 142-157).
Fail(r, e) ==
    /\ Publish(runs[r], catchFinally(Snapshot, e, runs[r].aborted))
    /\ runs' = Settle(r, [runs[r] EXCEPT !.pc = "done", !.acc = <<>>,
                              !.rejected = @ \/ e \in {HttpError, ApiError},
                              !.out = IF e.name = "AbortError" \/ e = AbortCheckError
                                      THEN "cancelled" ELSE "failed"])
    /\ UNCHANGED <<totalAmount, mounted, cache, populated>>

\* A slip in lines 111-113: the status of the response is not looked at.
statusThrows_unchecked(ok) == FALSE

\* Lines 111-113: if (!response.ok) throw.
statusThrows(ok) == ~ok

\* The fetch of line 106 resolves; a non-success status throws (line 112).
FetchResponds(r, ok) ==
    /\ runs[r].pc = "fetch"
    /\ IF statusThrows(ok)
       THEN Fail(r, HttpError)
       ELSE /\ runs' = [runs EXCEPT ![r].pc = "json", ![r].rejected = ~ok]
            /\ UNCHANGED <<questions, loading, error, totalAmount, mounted, cache, populated>>

\* The fetch of line 106 rejects: the network failed.
FetchFails(r) ==
    /\ runs[r].pc = "fetch"
    /\ Fail(r, NetworkError)

\* The body holds a non-zero response_code (line 118).
ApiRejects(r) ==
    /\ runs[r].pc = "json"
    /\ Fail(r, ApiError)

\* The accumulator of run r once the batch it waits for is decoded and pushed.
accumulated(r) ==
    push(runs[r].acc,
         decodeQuestions(SourceResults(runs[r].i, runs[r].reqs[runs[r].i + 1])))

\* A slip in line 132: the delay is never taken.
delayBeforeNext_never(i, total) == FALSE

\* Line 132: the delay is taken after every request but the last.
delayBeforeNext(i, total) == i < numRequests(total) - 1

\* A slip in lines 106-109: the signal is not handed to fetch.
fetchRejectsAtOnce_noSignal(run) == FALSE

\* Lines 106-109: fetch called with a signal that is already aborted rejects
\* with an AbortError and sends nothing.
fetchRejectsAtOnce(run) == run.aborted

\* Run r goes to the next iteration of the loop and calls fetch (lines
\* 99-109), after `waited` complete delays.
NextRequest(r, waited) ==
    IF fetchRejectsAtOnce(runs[r])
    THEN /\ Publish(runs[r], catchFinally(Snapshot, AbortException, TRUE))
         /\ runs' = Settle(r, runs[r])
         /\ UNCHANGED <<totalAmount, mounted, cache, populated>>
    ELSE /\ runs' = [runs EXCEPT ![r].pc = "fetch", ![r].i = @ + 1,
                                 ![r].acc = IF runs[r].pc = "json"
                                            THEN accumulated(r) ELSE @,
                                 ![r].delays = @ + waited,
                                 ![r].reqs = Append(@, amountInThisRequest(
                                                runs[r].i + 1, runs[r].total))]
         /\ UNCHANGED <<questions, loading, error, totalAmount, mounted, cache, populated>>

\* A batch that is not the last arrives (lines 115-135): the run checks the
\* signal and starts the delay.
BatchArrives(r) ==
    /\ runs[r].pc = "json"
    /\ runs[r].i < numRequests(runs[r].total) - 1
    /\ IF delayBeforeNext(runs[r].i, runs[r].total)
       THEN IF runs[r].aborted
            THEN Fail(r, AbortCheckError)
            ELSE /\ runs' = [runs EXCEPT ![r].pc = "wait", ![r].acc = accumulated(r)]
                 /\ UNCHANGED <<questions, loading, error, totalAmount, mounted, cache, populated>>
       ELSE NextRequest(r, 0)

\* The last batch arrives (lines 115-129, 139-140, 154-156); setItem throws
\* when the storage is full.
LastBatchArrives(r, storageOk) ==
    /\ runs[r].pc = "json"
    /\ runs[r].i >= numRequests(runs[r].total) - 1
    /\ IF storageOk
       THEN /\ cache' = [cache EXCEPT ![runs[r].total] = JSONstringify(accumulated(r))]
            /\ Publish(runs[r], publishAll(Snapshot, accumulated(r), runs[r].aborted))
            /\ runs' = Settle(r, [runs[r] EXCEPT !.pc = "done", !.acc = <<>>,
                                                 !.out = "success"])
            /\ populated' = [populated EXCEPT ![runs[r].total] = accumulated(r)]
            /\ UNCHANGED <<totalAmount, mounted>>
       ELSE Fail(r, QuotaError)

\* The timer of wait(5000) fires (line 134): the loop goes on to the next
\* fetch, which rejects at once when the signal is aborted.
WaitElapses(r) ==
    /\ runs[r].pc = "wait"
    /\ NextRequest(r, 1)

Next ==
    \/ \E t \in Totals : Mount(t)
    \/ \E t \in Totals, raced \in BOOLEAN : ChangeTotal(t, raced)
    \/ \E raced \in BOOLEAN : Unmount(raced)
    \/ \E r \in 1..Len(runs), ok \in BOOLEAN : FetchResponds(r, ok)
    \/ \E r \in 1..Len(runs) : FetchFails(r)
    \/ \E r \in 1..Len(runs) : ApiRejects(r)
    \/ \E r \in 1..Len(runs) : BatchArrives(r)
    \/ \E r \in 1..Len(runs), storageOk \in BOOLEAN : LastBatchArrives(r, storageOk)
    \/ \E r \in 1..Len(runs) : WaitElapses(r)

Spec == Init /\ [][Next]_vars

\* The same program when every abort reaches the pending body read in time:
\* no response overtakes a cancellation.
NextPrompt ==
    \/ \E t \in Totals : Mount(t)
    \/ \E t \in Totals : ChangeTotal(t, FALSE)
    \/ Unmount(FALSE)
    \/ \E r \in 1..Len(runs), ok \in BOOLEAN : FetchResponds(r, ok)
    \/ \E r \in 1..Len(runs) : FetchFails(r)
    \/ \E r \in 1..Len(runs) : ApiRejects(r)
    \/ \E r \in 1..Len(runs) : BatchArrives(r)
    \/ \E r \in 1..Len(runs), storageOk \in BOOLEAN : LastBatchArrives(r, storageOk)
    \/ \E r \in 1..Len(runs) : WaitElapses(r)

SpecPrompt == Init /\ [][NextPrompt]_vars

\* Some suspended run goes on: the response, the body or the rejection it
\* awaits arrives, or its timer fires.
Resumes ==
    \E r \in 1..Len(runs) :
        \/ \E ok \in BOOLEAN : FetchResponds(r, ok)
        \/ FetchFails(r)
        \/ ApiRejects(r)
        \/ BatchArrives(r)
        \/ \E storageOk \in BOOLEAN : LastBatchArrives(r, storageOk)
        \/ WaitElapses(r)

\* The program when every request is answered in the end and every timer
\* fires: no run stays suspended for ever.
SpecLive == Spec /\ WF_vars(Resumes)

----------------------------------------------------------------------------
(* Steps, as the properties below name them                                *)

\* The effect starts a run: a mount, or a change of the requested total.
StartStep == mounted' /\ (~mounted \/ totalAmount' # totalAmount)

\* A run goes on after an await.
RunStep == mounted' = mounted /\ totalAmount' = totalAmount /\ runs' # runs

\* The current run goes on: it is the last of runs, and it stays there.
CurStep == RunStep /\ mounted /\ Len(runs') = Len(runs)

\* An aborted run goes on: it ends with that step and is forgotten.
StaleStep == RunStep /\ Len(runs') < Len(runs)

\* The messages of the failures that are no cancellation.
FailureMessages ==
    {HttpError.message, ApiError.message, NetworkError.message, QuotaError.message}

\* The current run ends in a failure that is no cancellation.
CurFails ==
    /\ CurStep
    /\ runs[Len(runs)].out = "running"
    /\ runs'[Len(runs)].out = "failed"

----------------------------------------------------------------------------
(* C1 *)

\* C1: after a run failed with a non-cancellation error the published
\* snapshot is questions = empty, loading = false, error = the failure
\* message, whatever an earlier run had published.
C1_FailureClearsSnapshot ==
    [][CurFails =>
        /\ questions' = <<>>
        /\ loading' = FALSE
        /\ error' \in FailureMessages]_vars

----------------------------------------------------------------------------
(* C2 *)

\* C2: once its signal is triggered, a run publishes nothing further: no
\* step of an aborted run changes questions, loading or error.
C2_CancelledRunPublishesNothing ==
    [][StaleStep =>
        /\ questions' = questions
        /\ loading' = loading
        /\ error' = error]_vars

----------------------------------------------------------------------------
(* C3 *)

\* C3: every run start leaves the published error null, on a cache hit as
\* on a cache miss.
C3_RunStartResetsError ==
    [][StartStep => error' = Null]_vars

----------------------------------------------------------------------------
(* C4 *)

\* A run starts on a cache entry that a run of the program wrote.
StartsOnEntry ==
    StartStep /\ cache[totalAmount'] \notin ({Absent} \cup ForeignValues)

\* C4: a run that starts when the cache holds a non-empty entry for the
\* requested total publishes the collection the populating run published,
\* sets loading = false, and issues no network request.
C4_CacheHitRepublishes ==
    [][StartsOnEntry =>
        /\ questions' = populated[totalAmount']
        /\ questions' # <<>>
        /\ loading' = FALSE
        /\ runs'[Len(runs')].reqs = <<>>
        /\ runs'[Len(runs')].pc = "done"
        /\ cache' = cache]_vars

\* A run started on a cache hit and ended there, with the cached collection
\* published.
C4_Witness ==
    /\ mounted
    /\ runs[Len(runs)].path = "hit"
    /\ runs[Len(runs)].reqs = <<>>
    /\ ~loading
    /\ questions = populated[totalAmount]
    /\ Len(questions) > 0

----------------------------------------------------------------------------
(* C5 *)

\* The current run ends with every batch fetched and stored.
CurSucceeds ==
    /\ CurStep
    /\ runs[Len(runs)].out = "running"
    /\ runs'[Len(runs)].out = "success"

\* C5: whenever a run completes without error (its last batch arrives, or it
\* starts on a cache hit), the collection it publishes is as long as the
\* total it was asked for.  An aborted run ends with the step it takes.
C5_PublishedLength ==
    [][/\ CurSucceeds => Len(questions') = runs[Len(runs)].total
       /\ StartsOnEntry => Len(questions') = totalAmount'
       /\ (StaleStep /\ questions' # questions) =>
             \E r \in 1..Len(runs) :
                runs' = RemoveAt(runs, r) /\ Len(questions') = runs[r].total]_vars

C5_Witness ==
    /\ mounted
    /\ runs[Len(runs)].out = "success"
    /\ runs[Len(runs)].total = APP_TOTAL
    /\ Len(questions) = APP_TOTAL
    /\ ~loading
    /\ error = Null

----------------------------------------------------------------------------
(* C6 *)

RECURSIVE Sum(_)
Sum(q) == IF q = <<>> THEN 0 ELSE q[1] + Sum(Tail(q))

\* q is the batch plan of the total t: ceil(t/50) requests, each between 1
\* and 50, all 50 but a short last one, t in all.
IsPlanOf(q, t) ==
    /\ Len(q) * MAX_PER_REQUEST >= t
    /\ (Len(q) - 1) * MAX_PER_REQUEST < t
    /\ \A k \in 1..Len(q) : q[k] \in 1..MAX_PER_REQUEST
    /\ \A k \in 1..(Len(q) - 1) : q[k] = MAX_PER_REQUEST
    /\ q[Len(q)] = IF t % MAX_PER_REQUEST = 0 THEN MAX_PER_REQUEST
                                              ELSE t % MAX_PER_REQUEST
    /\ Sum(q) = t

\* C6: the requests a run issued by the time it succeeds are the batch plan
\* of its total; and the loop's amounts are the batch plan of every total up
\* to MaxPlanTotal.
C6_BatchPlan ==
    /\ \A r \in 1..Len(runs) :
          runs[r].out = "success" => IsPlanOf(runs[r].reqs, runs[r].total)
    /\ \A t \in 1..MaxPlanTotal : IsPlanOf(planOf(t), t)

C6_Witness ==
    /\ mounted
    /\ runs[Len(runs)].out = "success"
    /\ runs[Len(runs)].reqs = <<MAX_PER_REQUEST, APP_TOTAL - MAX_PER_REQUEST>>

----------------------------------------------------------------------------
(* C7 *)

\* The record of request a, place b comes before the one of request c, place d.
Before(x, y) == x[1] < y[1] \/ (x[1] = y[1] /\ x[2] < y[2])

\* C7: in the collection a successful run publishes, the records stand in
\* the order of their requests and, within a request, in the order the source
\* returned them; every record of every request is there, once.
C7_BatchOrder ==
    [][CurSucceeds =>
        LET qs == questions'
            q == runs'[Len(runs)].reqs
        IN  /\ \A k \in 1..(Len(qs) - 1) : Before(qs[k].qid, qs[k + 1].qid)
            /\ {qs[k].qid : k \in 1..Len(qs)} =
                  UNION {{<<i, j>> : j \in 1..q[i + 1]} : i \in 0..(Len(q) - 1)}]_vars

C7_Witness ==
    /\ mounted
    /\ runs[Len(runs)].out = "success"
    /\ Len(questions) = APP_TOTAL
    /\ questions[MAX_PER_REQUEST].qid = <<0, MAX_PER_REQUEST>>
    /\ questions[MAX_PER_REQUEST + 1].qid = <<1, 1>>

----------------------------------------------------------------------------
(* C8 *)

\* C8: the snapshot of a mounted consumer never has loading = true together
\* with a non-null error.
C8_NeverLoadingWithError ==
    ~(mounted /\ loading /\ error # Null)

----------------------------------------------------------------------------
(* C9 *)

\* C9: a cache entry is written only when a run ends with every batch
\* fetched, and then holds the complete collection; a run that fails or is
\* cancelled leaves the cache as it was.  (The only other change of the
\* cache is the removal of a bad entry at a run start.)
C9_CacheWrittenOnlyOnFullSuccess ==
    [][/\ (RunStep /\ cache' # cache) => CurSucceeds
       /\ CurSucceeds =>
             /\ cache'[runs[Len(runs)].total] = JSONstringify(questions')
             /\ Len(questions') = runs[Len(runs)].total
       /\ CurFails => cache' = cache
       /\ StaleStep => cache' = cache
       /\ StartStep => \A t \in Totals : cache'[t] \in {cache[t], Absent}]_vars

----------------------------------------------------------------------------
(* C10 *)

\* Stored values that end in the catch of the cache check: JSON.parse
\* rejects the first, the length of the second cannot be read.
CorruptValues == { <<Tok("[")>>, <<Tok("null")>> }

\* C10: a run that starts on a stored value that cannot be deserialized
\* deletes the entry and goes on as on a cache miss: loading, no error, the
\* first request of the plan issued, nothing accumulated; and no published
\* error ever is anything but the message of a failed request or write.
C10_CorruptEntryRecovered ==
    [][/\ (StartStep /\ cache[totalAmount'] \in CorruptValues) =>
             /\ cache'[totalAmount'] = Absent
             /\ error' = Null
             /\ loading' = TRUE
             /\ questions' = IF mounted THEN questions ELSE <<>>
             /\ runs'[Len(runs')].pc = "fetch"
             /\ runs'[Len(runs')].i = 0
             /\ runs'[Len(runs')].acc = <<>>
             /\ runs'[Len(runs')].reqs = <<planOf(totalAmount')[1]>>
       /\ error' \in {Null, AbortCheckError.message} \cup FailureMessages]_vars

C10_Witness ==
    /\ mounted
    /\ runs[Len(runs)].path = "corrupt"
    /\ runs[Len(runs)].pc = "fetch"
    /\ cache[totalAmount] = Absent
    /\ loading
    /\ error = Null

----------------------------------------------------------------------------
(* C11 *)

\* C11: the published categories are "All", then the categories of the
\* published questions, each once, in ascending order.
C11_CategoriesSortedDistinct ==
    /\ categories[1] = "All"
    /\ \A k \in 2..(Len(categories) - 1) :
          CodeUnitRank(categories[k]) < CodeUnitRank(categories[k + 1])
    /\ {categories[k] : k \in 2..Len(categories)} =
          {questions[k].category : k \in 1..Len(questions)}

C11_Witness ==
    /\ mounted
    /\ Len(questions) = APP_TOTAL
    /\ categories = <<"All", "Entertainment: \"Film\"", "History", "Science & Nature">>

----------------------------------------------------------------------------
(* C12 *)

\* The last batch of the current run arrives with response code 0.
CurLastBatch ==
    /\ CurStep
    /\ runs[Len(runs)].pc = "json"
    /\ runs[Len(runs)].i >= numRequests(runs[Len(runs)].total) - 1
    /\ ~runs'[Len(runs)].rejected

\* C12: a cache write that raises does not fail the run: whenever the last
\* batch of the current run arrives, the run publishes the whole collection
\* with loading = false and error = null, whether the storage took it or not.
C12_CacheWriteFailureIgnored ==
    [][CurLastBatch =>
        /\ Len(questions') = totalAmount
        /\ loading' = FALSE
        /\ error' = Null]_vars

----------------------------------------------------------------------------
(* C13 *)

\* C13: the delay between batches is abortable: a run whose signal is
\* triggered during the delay ends there, so no aborted run is ever still
\* suspended in the delay.
C13_DelayAbortable ==
    \A r \in 1..Len(runs) : ~(runs[r].aborted /\ runs[r].pc = "wait")

----------------------------------------------------------------------------
(* C14 *)

\* C14: a run whose signal is triggered issues no further network request:
\* no aborted run is ever waiting for the answer of a fetch, and the step of
\* an aborted run leaves every other run, and so every request, as it was.
C14_NoRequestAfterCancel ==
    [][/\ \A r \in 1..Len(runs') : runs'[r].aborted => runs'[r].pc # "fetch"
       /\ StaleStep =>
            \A k \in 1..Len(runs') : \E r \in 1..Len(runs) : runs'[k] = runs[r]]_vars

\* The signal of a run of two requests was triggered after its first request,
\* during its delay, and the next run is fetching.
C14_Witness ==
    /\ Len(runs) = 2
    /\ runs[1].aborted
    /\ runs[1].pc = "wait"
    /\ runs[1].reqs = <<MAX_PER_REQUEST>>
    /\ numRequests(runs[1].total) = 2
    /\ runs[2].pc = "fetch"

----------------------------------------------------------------------------
(* C15 *)

\* C15: the first batch that fails (a non-success status, or a non-zero
\* response code) ends the run: the run is over in the step that receives
\* it, with no request and no delay added, and it never moves again.
C15_FirstFailureEndsRun ==
    [][/\ \A r \in 1..Len(runs') : runs'[r].rejected => runs'[r].pc = "done"
       /\ CurFails =>
            /\ runs'[Len(runs)].reqs = runs[Len(runs)].reqs
            /\ runs'[Len(runs)].delays = runs[Len(runs)].delays
       /\ (RunStep /\ mounted /\ runs[Len(runs)].pc = "done") =>
            runs'[Len(runs')] = runs[Len(runs)]]_vars

\* The first of two batches failed: the run is over after one request.
C15_Witness ==
    /\ mounted
    /\ runs[Len(runs)].rejected
    /\ runs[Len(runs)].out = "failed"
    /\ numRequests(runs[Len(runs)].total) = 2
    /\ runs[Len(runs)].reqs = <<MAX_PER_REQUEST>>
    /\ runs[Len(runs)].delays = 0

----------------------------------------------------------------------------
(* C16 *)

\* A request of the run is on the network: the run waits for the response,
\* or for the rest of its body.  An aborted run that still holds a body has
\* read it to its end before the abort.
inFlight(run) == run.pc = "fetch" \/ (run.pc = "json" /\ ~run.aborted)

\* C16: never are two requests in flight at once, and when a run starts no
\* request of an older run is in flight any more.
C16_OneRequestInFlight ==
    [][/\ Cardinality({r \in 1..Len(runs') : inFlight(runs'[r])}) <= 1
       /\ StartStep => \A r \in 1..(Len(runs') - 1) : ~inFlight(runs'[r])]_vars

\* The total changed while the old run was reading a body; the old run has
\* not ended, and the request of the new run is in flight.
C16_Witness ==
    /\ Len(runs) = 2
    /\ runs[1].aborted
    /\ runs[1].pc = "json"
    /\ runs[1].total # runs[2].total
    /\ inFlight(runs[2])

----------------------------------------------------------------------------
(* C17 *)

\* C17: every request of a run but its first was issued after one complete
\* delay of its own, no delay follows the last request, and a run that
\* succeeded took exactly (number of its requests) - 1 delays, the number of
\* requests being the total divided by 50, rounded up.
C17_DelayBetweenRequests ==
    \A r \in 1..Len(runs) :
        runs[r].path # "hit" =>
            /\ Len(runs[r].reqs) = runs[r].delays + 1
            /\ runs[r].out = "success" =>
                 /\ runs[r].delays * MAX_PER_REQUEST < runs[r].total
                 /\ runs[r].total <= (runs[r].delays + 1) * MAX_PER_REQUEST

\* A run for 80 succeeded after two requests and one delay.
C17_Witness ==
    /\ mounted
    /\ runs[Len(runs)].out = "success"
    /\ runs[Len(runs)].total = APP_TOTAL
    /\ runs[Len(runs)].reqs = <<50, 30>>
    /\ runs[Len(runs)].delays = 1

----------------------------------------------------------------------------
(* C18 *)

\* C18: at most one run is uncancelled at any time: the signal of every run
\* but the newest is triggered, from the step that starts the newest on, and
\* the signal of every run of an unmounted component is triggered.
C18_OneUncancelledRun ==
    /\ \A r \in 1..(Len(runs) - 1) : runs[r].aborted
    /\ ~mounted => \A r \in 1..Len(runs) : runs[r].aborted

\* An aborted run is still suspended while its successor, uncancelled, reads
\* a body.
C18_Witness ==
    /\ mounted
    /\ Len(runs) = 2
    /\ runs[1].aborted
    /\ runs[1].pc = "wait"
    /\ ~runs[2].aborted
    /\ runs[2].pc = "json"

----------------------------------------------------------------------------
(* C19 *)

\* C19: in every settled snapshot (loading = false, error = null) of the
\* mounted component the published questions are the whole collection of the
\* requested total: as many as requested, and the ones a run for that total
\* fetched.
C19_SettledSnapshotIsComplete ==
    (mounted /\ ~loading /\ error = Null) =>
        /\ Len(questions) = totalAmount
        /\ questions = populated[totalAmount]

----------------------------------------------------------------------------
(* C20 *)

\* C20: a run that is never cancelled, and whose every request is answered,
\* reaches loading = false: while the component is mounted and loading for a
\* total, either loading becomes false or the run is cancelled by an unmount
\* or a change of the total.
C20_RunSettles ==
    \A t \in Totals :
        (mounted /\ loading /\ totalAmount = t) ~>
            (~loading \/ ~mounted \/ totalAmount # t)

\* A run that went through a request, a delay and a second request has
\* ended, and loading is false.
C20_Witness ==
    /\ mounted
    /\ ~loading
    /\ runs[Len(runs)].pc = "done"
    /\ Len(runs[Len(runs)].reqs) = 2
    /\ runs[Len(runs)].out \in {"success", "failed"}

====
